---- MODULE Spec2Model ----
(***************************************************************************)
(* HAM and Bacon: the Graph / _Vertex classes of graph_entities.py, the    *)
(* breadth-first searches over them, and the two graph builders of         *)
(* graph_create.py.                                                        *)
(*                                                                         *)
(* A graph is the dictionary Graph._vertices: a function from the items    *)
(* present to their _Vertex records.  A _Vertex's neighbours are held as   *)
(* the neighbours' items: a _Vertex object is created once per key and is  *)
(* never replaced or removed, so objects and keys correspond one to one.   *)
(***************************************************************************)
EXTENDS Integers, Sequences, FiniteSets, TLC

VARIABLES
    mode,       \* which program is running: "api", "actor", "rec", "bfs", "filtered"
    g,          \* Graph._vertices
    last,       \* the last call of the Graph API: [op, out]
    retset,     \* the set returned by the last get_neighbours / get_common_movies
    rin,        \* create_recommended_movie_graph's arguments
    it,         \* where a builder's for loops are
    movies,     \* the movie dictionary: movie -> <<cast, <<year, votes, rating>>>>
    q,          \* the arguments of the searches: [start, target, key, lower, upper]
    pc,         \* where the running function is: "idle" when none runs
    queue,      \* the running search's deque
    visited,    \* the running search's visited set
    cur,        \* the running search's current_actor and path: [item, path]
    todo,       \* what the running for loop over a neighbour set has yet to yield
    distances,  \* shortest_distance_bfs's distances dictionary
    sp,         \* shortest_path_bfs: [out, ret]
    sd,         \* shortest_distance_bfs: [out, ret]
    spf         \* shortest_path_bfs_filtered: [out, ret]

inputVars == <<mode, movies, q, rin>>
graphVars == <<mode, g, movies, q, rin, it>>
localVars == <<queue, visited, cur, todo, distances>>
searchVars == <<pc, queue, visited, cur, todo, distances, sp, sd, spf>>
vars == <<mode, g, last, retset, rin, it, movies, q, pc, queue, visited, cur, todo,
          distances, sp, sd, spf>>

----------------------------------------------------------------------------
(* Bounds of the model *)

NumApiItems == 2
NumApiMovies == 1
NumActors == 3
NumMovies == 2
NumRecItems == 3
MaxRecs == 2
NumBfsItems == 4
NumFItems == 3
NumFMovies == 2

ApiItems == 1..NumApiItems
ApiMovies == 1..NumApiMovies
Kinds == {"actor", "movie"}

----------------------------------------------------------------------------
(* _Vertex and Graph: graph_entities.py *)

\* _Vertex.__init__
NewVertex(item, kind) ==
    [item |-> item, kind |-> kind, neighbours |-> {}, appearances |-> {},
     sim_score |-> 0, movie_info |-> <<0, 0, 0>>]

\* Graph.__init__
EmptyGraph == <<>>

\* Graph.item_in_graph
ItemInGraph(G, item) == item \in DOMAIN G

\* add_vertex without its test: the vertex is made anew
AddVertexOverwrite(G, item, kind) ==
    (item :> NewVertex(item, kind)) @@ G

\* Graph.add_vertex
AddVertex(G, item, kind) ==
    IF item \notin DOMAIN G THEN (item :> NewVertex(item, kind)) @@ G ELSE G

\* add_edge that adds to v1.neighbours only
AddEdgeOneWay(G, item1, item2) ==
    IF item1 \in DOMAIN G /\ item2 \in DOMAIN G
    THEN [out |-> "ok", g |-> [G EXCEPT ![item1].neighbours = @ \cup {item2}]]
    ELSE [out |-> "ValueError", g |-> G]

\* add_edge that tests item1 only: the lookup of an absent item2 raises KeyError
AddEdgeTestsFirstOnly(G, item1, item2) ==
    IF item1 \in DOMAIN G
    THEN IF item2 \in DOMAIN G
         THEN [out |-> "ok",
               g |-> [G EXCEPT ![item1].neighbours = @ \cup {item2},
                               ![item2].neighbours = @ \cup {item1}]]
         ELSE [out |-> "KeyError", g |-> G]
    ELSE [out |-> "ValueError", g |-> G]

\* Graph.add_edge: the new graph, or the graph as it was with a ValueError
AddEdge(G, item1, item2) ==
    IF item1 \in DOMAIN G /\ item2 \in DOMAIN G
    THEN [out |-> "ok",
          g |-> [G EXCEPT ![item1].neighbours = @ \cup {item2},
                          ![item2].neighbours = @ \cup {item1}]]
    ELSE [out |-> "ValueError", g |-> G]

\* Graph.adjacent
Adjacent(G, item1, item2) ==
    IF item1 \in DOMAIN G /\ item2 \in DOMAIN G
    THEN \E v2 \in G[item1].neighbours : G[v2].item = item2
    ELSE FALSE

\* Graph.get_neighbours
GetNeighbours(G, item) ==
    IF item \in DOMAIN G
    THEN [out |-> "ok", ret |-> {G[n].item : n \in G[item].neighbours}]
    ELSE [out |-> "ValueError", ret |-> {}]

\* Graph.add_appearances
AddAppearances(G, actor, movie) ==
    IF actor \in DOMAIN G
    THEN [out |-> "ok", g |-> [G EXCEPT ![actor].appearances = @ \cup {movie}]]
    ELSE [out |-> "ValueError", g |-> G]

\* Graph.add_sim_score: both dictionary lookups raise KeyError on a missing key
AddSimScore(G, movie, scores) ==
    IF movie \notin DOMAIN scores THEN [out |-> "KeyError", g |-> G]
    ELSE IF movie \notin DOMAIN G THEN [out |-> "KeyError", g |-> G]
    ELSE [out |-> "ok", g |-> [G EXCEPT ![movie].sim_score = scores[movie]]]

\* Graph.get_common_movies
GetCommonMovies(G, item1, item2) ==
    IF item1 \in DOMAIN G /\ item2 \in DOMAIN G
    THEN [out |-> "ok", ret |-> G[item1].appearances \cap G[item2].appearances]
    ELSE [out |-> "ValueError", ret |-> {}]

----------------------------------------------------------------------------
(* The breadth-first searches: graph_entities.py *)

\* float("inf"), the distance of a vertex the search has not reached
Inf == 1000000

\* float(): the movie records hold numbers, which float() leaves as they are
Float(x) == x

\* no call of the Graph API made yet
NoCall == [op |-> "none", out |-> "ok"]
NoInput == [main_movie |-> 0, recommendations |-> <<>>, sim_scores |-> <<>>]
NoIter == [i |-> 0]
NoArgs == [start |-> 0, target |-> 0, key |-> "", lower |-> 0, upper |-> 0]
NoResult == [out |-> "none", ret |-> <<>>]
NoCur == [item |-> 0, path |-> <<>>]

InitSearch ==
    /\ queue = <<>>
    /\ visited = {}
    /\ cur = NoCur
    /\ todo = {}
    /\ distances = <<>>
    /\ sp = NoResult
    /\ sd = NoResult
    /\ spf = NoResult

\* a function that returns or raises: its locals are gone
Return ==
    /\ pc' = "idle"
    /\ queue' = <<>>
    /\ visited' = {}
    /\ cur' = NoCur
    /\ todo' = {}
    /\ distances' = <<>>

(* shortest_path_bfs *)

\* the check of lines 230-231
SpCheck(G, starting_item, target_item) ==
    IF starting_item \notin DOMAIN G \/ target_item \notin DOMAIN G
    THEN "ValueError" ELSE "ok"

\* the loop body that enqueues [neighbour.item] in place of path + [neighbour.item]
SpEnqueuePathReset(vis, qu, path, neighbour) ==
    IF neighbour \notin vis
    THEN [visited |-> vis \cup {neighbour},
          queue |-> Append(qu, [item |-> neighbour, path |-> <<neighbour>>])]
    ELSE [visited |-> vis, queue |-> qu]

\* lines 243-245, for one neighbour: the visited set and the deque after it
SpEnqueue(vis, qu, path, neighbour) ==
    IF neighbour \notin vis
    THEN [visited |-> vis \cup {neighbour},
          queue |-> Append(qu, [item |-> neighbour, path |-> Append(path, neighbour)])]
    ELSE [visited |-> vis, queue |-> qu]

\* the client runs its searches one after the other on the same graph: in mode
\* "bfs" shortest_path_bfs, then shortest_distance_bfs; in mode "filtered"
\* shortest_path_bfs_filtered, then shortest_path_bfs
ShortestPathBfsCall ==
    /\ mode \in {"bfs", "filtered"}
    /\ pc = "idle"
    /\ sp.out = "none"
    /\ mode = "filtered" => spf.out # "none"
    /\ IF SpCheck(g, q.start, q.target) = "ValueError"
       THEN /\ sp' = [out |-> "ValueError", ret |-> <<>>]
            /\ UNCHANGED <<pc, localVars>>
       ELSE /\ queue' = <<[item |-> q.start, path |-> <<q.start>>]>>
            /\ visited' = {q.start}
            /\ pc' = "sp_while"
            /\ sp' = [out |-> "running", ret |-> <<>>]
            /\ UNCHANGED <<cur, todo, distances>>
    /\ UNCHANGED <<graphVars, last, retset, sd, spf>>

\* the while test, popleft and the test for the target: lines 236-242
SpWhile ==
    /\ pc = "sp_while"
    /\ IF queue = <<>>
       THEN /\ sp' = [out |-> "ok", ret |-> <<>>]
            /\ Return
       ELSE LET c == Head(queue) IN
            IF c.item = q.target
            THEN /\ sp' = [out |-> "ok", ret |-> c.path]
                 /\ Return
            ELSE /\ cur' = c
                 /\ queue' = Tail(queue)
                 /\ todo' = g[c.item].neighbours
                 /\ pc' = IF g[c.item].neighbours = {} THEN "sp_while" ELSE "sp_for"
                 /\ UNCHANGED <<visited, distances, sp>>
    /\ UNCHANGED <<graphVars, last, retset, sd, spf>>

\* one round of the for loop over the neighbour set, which yields in any order
SpFor ==
    /\ pc = "sp_for"
    /\ \E n \in todo :
        LET r == SpEnqueue(visited, queue, cur.path, n) IN
        /\ todo' = todo \ {n}
        /\ visited' = r.visited
        /\ queue' = r.queue
        /\ pc' = IF todo \ {n} = {} THEN "sp_while" ELSE "sp_for"
    /\ UNCHANGED <<cur, distances, sp, sd, spf, graphVars, last, retset>>

(* shortest_distance_bfs *)

\* the check of lines 319-320
SdCheck(G, starting_item) ==
    IF starting_item \notin DOMAIN G THEN "ValueError" ELSE "ok"

\* lines 322-323
SdInitDistances(G, starting_item) ==
    [actor \in DOMAIN G |-> IF actor = starting_item THEN 0 ELSE Inf]

\* the loop body that counts from the start in place of the current actor
SdRelaxFromStart(vis, qu, dist, current_actor, neighbour, starting_item) ==
    IF neighbour # starting_item /\ neighbour \notin vis
    THEN [visited |-> vis \cup {neighbour},
          distances |-> [dist EXCEPT ![neighbour] = dist[starting_item] + 1],
          queue |-> Append(qu, neighbour)]
    ELSE [visited |-> vis, distances |-> dist, queue |-> qu]

\* lines 332-335, for one neighbour
SdRelax(vis, qu, dist, current_actor, neighbour, starting_item) ==
    IF neighbour # starting_item /\ neighbour \notin vis
    THEN [visited |-> vis \cup {neighbour},
          distances |-> [dist EXCEPT ![neighbour] = dist[current_actor] + 1],
          queue |-> Append(qu, neighbour)]
    ELSE [visited |-> vis, distances |-> dist, queue |-> qu]

\* the result without the vertices the search did not reach
SdResultReachedOnly(dist, starting_item) ==
    [actor \in {a \in DOMAIN dist \ {starting_item} : dist[a] # Inf} |-> dist[actor]]

\* line 338
SdResult(dist, starting_item) ==
    [actor \in DOMAIN dist \ {starting_item} |-> dist[actor]]

ShortestDistanceBfsCall ==
    /\ mode = "bfs"
    /\ pc = "idle"
    /\ sd.out = "none"
    /\ sp.out # "none"
    /\ IF SdCheck(g, q.start) = "ValueError"
       THEN /\ sd' = [out |-> "ValueError", ret |-> <<>>]
            /\ UNCHANGED <<pc, localVars>>
       ELSE /\ distances' = SdInitDistances(g, q.start)
            /\ queue' = <<q.start>>
            /\ visited' = {q.start}
            /\ pc' = "sd_while"
            /\ sd' = [out |-> "running", ret |-> <<>>]
            /\ UNCHANGED <<cur, todo>>
    /\ UNCHANGED <<graphVars, last, retset, sp, spf>>

SdWhile ==
    /\ pc = "sd_while"
    /\ IF queue = <<>>
       THEN /\ sd' = [out |-> "ok", ret |-> SdResult(distances, q.start)]
            /\ Return
       ELSE /\ cur' = [item |-> Head(queue), path |-> <<>>]
            /\ queue' = Tail(queue)
            /\ todo' = g[Head(queue)].neighbours
            /\ pc' = IF g[Head(queue)].neighbours = {} THEN "sd_while" ELSE "sd_for"
            /\ UNCHANGED <<visited, distances, sd>>
    /\ UNCHANGED <<graphVars, last, retset, sp, spf>>

SdFor ==
    /\ pc = "sd_for"
    /\ \E n \in todo :
        LET r == SdRelax(visited, queue, distances, cur.item, n, q.start) IN
        /\ todo' = todo \ {n}
        /\ visited' = r.visited
        /\ distances' = r.distances
        /\ queue' = r.queue
        /\ pc' = IF todo \ {n} = {} THEN "sd_while" ELSE "sd_for"
    /\ UNCHANGED <<cur, sp, sd, spf, graphVars, last, retset>>

(* shortest_path_bfs_filtered and filter_by_key *)

ValidKeys == {"release date", "rating"}

\* the comprehensions of lines 396 and 402: field is 1 for the year, 3 for the
\* rating; movies[movie] raises KeyError for a movie the dictionary lacks
CommonFiltered(common, field, lower, upper, mv) ==
    IF \E movie \in common : movie \notin DOMAIN mv
    THEN [out |-> "KeyError", set |-> {}]
    ELSE [out |-> "ok",
          set |-> {movie \in common :
                      /\ lower <= Float(mv[movie][2][field])
                      /\ Float(mv[movie][2][field]) <= upper}]

\* filter_by_key that answers (False, set()) for a key it does not know
FilterByKeyNoRaise(G, actor1, actor2, key, lower, upper, mv) ==
    IF actor1 \in DOMAIN G /\ actor2 \in DOMAIN G
    THEN LET common == G[actor1].appearances \cap G[actor2].appearances
             field == IF key = "release date" THEN 1 ELSE 3
             cf == CommonFiltered(common, field, lower, upper, mv)
         IN  IF key \notin ValidKeys \/ cf.out # "ok" \/ cf.set = {}
             THEN [out |-> "ok", valid |-> FALSE, common |-> {}]
             ELSE [out |-> "ok", valid |-> TRUE, common |-> cf.set]
    ELSE [out |-> "ValueError", valid |-> FALSE, common |-> {}]

\* Graph.filter_by_key: [out, valid, common]
FilterByKey(G, actor1, actor2, key, lower, upper, mv) ==
    IF actor1 \in DOMAIN G /\ actor2 \in DOMAIN G
    THEN LET common == G[actor1].appearances \cap G[actor2].appearances
             No == [out |-> "ok", valid |-> FALSE, common |-> {}]
             Filtered(field) ==
                 LET cf == CommonFiltered(common, field, lower, upper, mv) IN
                 IF cf.out # "ok" THEN [out |-> cf.out, valid |-> FALSE, common |-> {}]
                 ELSE IF cf.set # {} THEN [out |-> "ok", valid |-> TRUE, common |-> cf.set]
                 ELSE No
         IN  IF key = "release date" THEN Filtered(1)
             ELSE IF key = "rating" THEN Filtered(3)
             ELSE [out |-> "KeyError", valid |-> FALSE, common |-> {}]
    ELSE [out |-> "ValueError", valid |-> FALSE, common |-> {}]

\* the helper that enqueues path in place of path + [item]
SpBfsFilteredHelperSamePath(is_valid, vis, item, qu, path) ==
    IF is_valid
    THEN [visited |-> vis \cup {item},
          queue |-> Append(qu, [item |-> item, path |-> path])]
    ELSE [visited |-> vis, queue |-> qu]

\* the helper that marks item visited whether or not the edge is valid
SpBfsFilteredHelperMarksRejected(is_valid, vis, item, qu, path) ==
    IF is_valid
    THEN [visited |-> vis \cup {item},
          queue |-> Append(qu, [item |-> item, path |-> Append(path, item)])]
    ELSE [visited |-> vis \cup {item}, queue |-> qu]

\* Graph._sp_bfs_filtered_helper
SpBfsFilteredHelper(is_valid, vis, item, qu, path) ==
    IF is_valid
    THEN [visited |-> vis \cup {item},
          queue |-> Append(qu, [item |-> item, path |-> Append(path, item)])]
    ELSE [visited |-> vis, queue |-> qu]

\* the check of lines 258-259
SpfCheck(G, starting_item, target_item) ==
    IF starting_item \notin DOMAIN G \/ target_item \notin DOMAIN G
    THEN "ValueError" ELSE "ok"

ShortestPathBfsFilteredCall ==
    /\ mode = "filtered"
    /\ pc = "idle"
    /\ spf.out = "none"
    /\ IF SpfCheck(g, q.start, q.target) = "ValueError"
       THEN /\ spf' = [out |-> "ValueError", ret |-> <<>>]
            /\ UNCHANGED <<pc, localVars>>
       ELSE /\ queue' = <<[item |-> q.start, path |-> <<q.start>>]>>
            /\ visited' = {q.start}
            /\ pc' = "spf_while"
            /\ spf' = [out |-> "running", ret |-> <<>>]
            /\ UNCHANGED <<cur, todo, distances>>
    /\ UNCHANGED <<graphVars, last, retset, sp, sd>>

SpfWhile ==
    /\ pc = "spf_while"
    /\ IF queue = <<>>
       THEN /\ spf' = [out |-> "ok", ret |-> <<>>]
            /\ Return
       ELSE LET c == Head(queue) IN
            IF c.item = q.target
            THEN /\ spf' = [out |-> "ok", ret |-> c.path]
                 /\ Return
            ELSE /\ cur' = c
                 /\ queue' = Tail(queue)
                 /\ todo' = g[c.item].neighbours
                 /\ pc' = IF g[c.item].neighbours = {} THEN "spf_while" ELSE "spf_for"
                 /\ UNCHANGED <<visited, distances, spf>>
    /\ UNCHANGED <<graphVars, last, retset, sp, sd>>

\* one round of the for loop of lines 270-274; an exception of filter_by_key
\* leaves shortest_path_bfs_filtered
SpfFor ==
    /\ pc = "spf_for"
    /\ \E n \in todo :
        IF n \in visited
        THEN /\ todo' = todo \ {n}
             /\ pc' = IF todo \ {n} = {} THEN "spf_while" ELSE "spf_for"
             /\ UNCHANGED <<visited, queue, cur, distances, spf>>
        ELSE LET f == FilterByKey(g, cur.item, n, q.key, q.lower, q.upper, movies) IN
             IF f.out # "ok"
             THEN /\ spf' = [out |-> f.out, ret |-> <<>>]
                  /\ Return
             ELSE LET r == SpBfsFilteredHelper(f.valid, visited, n, queue, cur.path) IN
                  /\ todo' = todo \ {n}
                  /\ visited' = r.visited
                  /\ queue' = r.queue
                  /\ pc' = IF todo \ {n} = {} THEN "spf_while" ELSE "spf_for"
                  /\ UNCHANGED <<cur, distances, spf>>
    /\ UNCHANGED <<graphVars, last, retset, sp, sd>>

(* The graphs and arguments the searches are run on *)

KindOf(i) == IF i % 2 = 1 THEN "actor" ELSE "movie"

\* the edges a client can add between the items 1..n
Pairs(n) == {{i, j} : i \in 1..n, j \in 1..n} \ {{i} : i \in 1..n}

\* the graph add_vertex, add_edge and add_appearances build from the items 1..n,
\* the edges E and the appearance sets A
MakeGraph(n, E, A) ==
    [i \in 1..n |->
        [item |-> i, kind |-> KindOf(i),
         neighbours |-> {j \in 1..n : j # i /\ {i, j} \in E},
         appearances |-> A[i], sim_score |-> 0, movie_info |-> <<0, 0, 0>>]]

\* the movie dictionary of the filtered searches: movie m of year m
FilterMovies ==
    [m \in 1..NumFMovies |-> <<{}, <<m, 0, NumFMovies + 1 - m>>>>]

Thresholds == {<<1, 1>>, <<1, NumFMovies>>, <<0, 0>>}

InitBfs ==
    /\ mode = "bfs"
    /\ \E n \in 0..NumBfsItems : \E E \in SUBSET Pairs(n) :
          g = MakeGraph(n, E, [i \in 1..n |-> {}])
    /\ \E s \in 1..NumBfsItems, t \in 1..NumBfsItems :
          q = [start |-> s, target |-> t, key |-> "", lower |-> 0, upper |-> 0]
    /\ movies = <<>>
    /\ last = NoCall
    /\ retset = {}
    /\ rin = NoInput
    /\ it = NoIter
    /\ pc = "idle"
    /\ InitSearch

NextBfs ==
    \/ ShortestPathBfsCall
    \/ SpWhile
    \/ SpFor
    \/ ShortestDistanceBfsCall
    \/ SdWhile
    \/ SdFor

SpecBfs == InitBfs /\ [][NextBfs]_vars

InitFiltered ==
    /\ mode = "filtered"
    /\ \E n \in 0..NumFItems : \E E \in SUBSET Pairs(n) :
       \E A \in [1..n -> SUBSET (1..NumFMovies)] :
          g = MakeGraph(n, E, A)
    /\ \E s \in 1..NumFItems, t \in 1..NumFItems :
       \E k \in ValidKeys \cup {"votes"}, th \in Thresholds :
          q = [start |-> s, target |-> t, key |-> k, lower |-> th[1], upper |-> th[2]]
    /\ movies = FilterMovies
    /\ last = NoCall
    /\ retset = {}
    /\ rin = NoInput
    /\ it = NoIter
    /\ pc = "idle"
    /\ InitSearch

NextFiltered ==
    \/ ShortestPathBfsFilteredCall
    \/ SpfWhile
    \/ SpfFor
    \/ ShortestPathBfsCall
    \/ SpWhile
    \/ SpFor

SpecFiltered == InitFiltered /\ [][NextFiltered]_vars

----------------------------------------------------------------------------
(* The graph builders: graph_create.py *)

\* the for loop of _create_actor_graph_helper over the actors of rest.  add_edge
\* only adds to neighbour sets, so the order the set yields its members in does
\* not change the graph the loop leaves, and one order is taken.  add_edge cannot
\* raise here: actor is in the graph, and actor2 is tested to be.
RECURSIVE HelperLoop(_, _, _)
HelperLoop(G, actor, rest) ==
    IF rest = {} THEN G
    ELSE LET actor2 == CHOOSE x \in rest : TRUE IN
         HelperLoop(IF ItemInGraph(G, actor2) /\ actor # actor2
                    THEN AddEdge(G, actor, actor2).g ELSE G,
                    actor, rest \ {actor2})

\* the helper that loops over the graph's vertices in place of the movie's cast
CreateActorGraphHelperAllVertices(mv, movie, G, actor) == HelperLoop(G, actor, DOMAIN G)

\* _create_actor_graph_helper
CreateActorGraphHelper(mv, movie, G, actor) == HelperLoop(G, actor, mv[movie][1])

\* the body of the inner for loop of create_actor_graph: lines 58-60.
\* add_appearances cannot raise: add_vertex has just made actor present.
ActorLoopBody(G, mv, movie, actor) ==
    CreateActorGraphHelper(mv, movie,
        AddAppearances(AddVertex(G, actor, "actor"), actor, movie).g, actor)

\* create_actor_graph, line 56: the next movie of the dictionary
ActorNextMovie ==
    /\ mode = "actor"
    /\ pc = "actor_for"
    /\ it.cleft = {}
    /\ \E movie \in it.mleft :
          it' = [mleft |-> it.mleft \ {movie}, movie |-> movie, cleft |-> movies[movie][1]]
    /\ UNCHANGED <<inputVars, g, last, retset, searchVars>>

\* create_actor_graph, lines 57-60: the next actor of the movie's cast
ActorNextActor ==
    /\ mode = "actor"
    /\ pc = "actor_for"
    /\ \E actor \in it.cleft :
        /\ g' = ActorLoopBody(g, movies, it.movie, actor)
        /\ it' = [it EXCEPT !.cleft = @ \ {actor}]
    /\ UNCHANGED <<inputVars, last, retset, searchVars>>

\* create_actor_graph, line 62
ActorReturn ==
    /\ mode = "actor"
    /\ pc = "actor_for"
    /\ it.cleft = {}
    /\ it.mleft = {}
    /\ pc' = "returned"
    /\ UNCHANGED <<inputVars, g, it, last, retset, localVars, sp, sd, spf>>

\* create_recommended_movie_graph, lines 88-95.  A recommendations dictionary
\* is first made the list of its keys, so the list is what is modelled.
RecStart ==
    /\ mode = "rec"
    /\ pc = "rec_start"
    /\ g' = AddSimScore(AddVertex(EmptyGraph, rin.main_movie, "movie"),
                        rin.main_movie, (rin.main_movie :> 100)).g
    /\ pc' = "rec_for"
    /\ UNCHANGED <<inputVars, it, last, retset, localVars, sp, sd, spf>>

\* a loop body that joins the movie to every vertex made so far
RecLoopBodyClique(G, movie, main_movie, scores) ==
    LET s == AddSimScore(AddVertex(G, movie, "movie"), movie, scores) IN
    IF s.out # "ok" THEN s
    ELSE [out |-> "ok",
          g |-> [v \in DOMAIN s.g |->
                    IF v = movie
                    THEN [s.g[v] EXCEPT !.neighbours = @ \cup (DOMAIN s.g \ {movie})]
                    ELSE [s.g[v] EXCEPT !.neighbours = @ \cup {movie}]]]

\* the body of the for loop of create_recommended_movie_graph: lines 98-100.
\* A KeyError of add_sim_score leaves the function; add_edge cannot raise.
RecLoopBody(G, movie, main_movie, scores) ==
    LET s == AddSimScore(AddVertex(G, movie, "movie"), movie, scores) IN
    IF s.out # "ok" THEN s ELSE AddEdge(s.g, movie, main_movie)

RecNextMovie ==
    /\ mode = "rec"
    /\ pc = "rec_for"
    /\ it.i <= Len(rin.recommendations)
    /\ LET r == RecLoopBody(g, rin.recommendations[it.i], rin.main_movie, rin.sim_scores) IN
        /\ g' = r.g
        /\ pc' = IF r.out = "ok" THEN "rec_for" ELSE "raised"
    /\ it' = [i |-> it.i + 1]
    /\ UNCHANGED <<inputVars, last, retset, localVars, sp, sd, spf>>

\* create_recommended_movie_graph, line 102
RecReturn ==
    /\ mode = "rec"
    /\ pc = "rec_for"
    /\ it.i > Len(rin.recommendations)
    /\ pc' = "returned"
    /\ UNCHANGED <<inputVars, g, it, last, retset, localVars, sp, sd, spf>>

Actors == 1..NumActors
Movies == 1..NumMovies
RecItems == 1..NumRecItems

\* the lists of at most n movies
RECURSIVE ListsUpTo(_, _)
ListsUpTo(S, n) ==
    IF n = 0 THEN {<<>>}
    ELSE LET L == ListsUpTo(S, n - 1) IN
         L \cup {Append(l, x) : l \in {k \in L : Len(k) = n - 1}, x \in S}

\* similarity scores in hundredths (1.0 is 100): a dictionary with every movie,
\* and one that lacks the last
RecScoreDicts ==
    {[i \in RecItems |-> 10 * i], [i \in 1..(NumRecItems - 1) |-> 10 * i]}

InitActor ==
    /\ mode = "actor"
    /\ movies \in [Movies -> {<<cast, <<0, 0, 0>>>> : cast \in SUBSET Actors}]
    /\ g = EmptyGraph
    /\ it = [mleft |-> Movies, movie |-> 0, cleft |-> {}]
    /\ rin = NoInput
    /\ q = NoArgs
    /\ last = NoCall
    /\ retset = {}
    /\ pc = "actor_for"
    /\ InitSearch

InitRec ==
    /\ mode = "rec"
    /\ \E m \in RecItems, l \in ListsUpTo(RecItems, MaxRecs), s \in RecScoreDicts :
          rin = [main_movie |-> m, recommendations |-> l, sim_scores |-> s]
    /\ g = EmptyGraph
    /\ it = [i |-> 1]
    /\ movies = <<>>
    /\ q = NoArgs
    /\ last = NoCall
    /\ retset = {}
    /\ pc = "rec_start"
    /\ InitSearch

----------------------------------------------------------------------------
(* The Graph API called by a client, from the empty graph *)

\* the similarity-score dictionaries a client passes
ApiScoreDicts == {(i :> 50) : i \in ApiItems}

AddVertexCall(item, kind) ==
    /\ mode = "api"
    /\ last' = [op |-> "add_vertex", out |-> "ok"]
    /\ g' = AddVertex(g, item, kind)
    /\ retset' = {}
    /\ UNCHANGED <<inputVars, it, searchVars>>

\* add_edge's precondition item1 != item2 is the caller's to keep
AddEdgeCall(item1, item2) ==
    /\ mode = "api"
    /\ item1 # item2
    /\ LET r == AddEdge(g, item1, item2) IN
        /\ last' = [op |-> "add_edge", out |-> r.out]
        /\ g' = r.g
    /\ retset' = {}
    /\ UNCHANGED <<inputVars, it, searchVars>>

AddAppearancesCall(actor, movie) ==
    /\ mode = "api"
    /\ LET r == AddAppearances(g, actor, movie) IN
        /\ last' = [op |-> "add_appearances", out |-> r.out]
        /\ g' = r.g
    /\ retset' = {}
    /\ UNCHANGED <<inputVars, it, searchVars>>

AddSimScoreCall(movie, scores) ==
    /\ mode = "api"
    /\ LET r == AddSimScore(g, movie, scores) IN
        /\ last' = [op |-> "add_sim_score", out |-> r.out]
        /\ g' = r.g
    /\ retset' = {}
    /\ UNCHANGED <<inputVars, it, searchVars>>

GetNeighboursCall(item) ==
    /\ mode = "api"
    /\ LET r == GetNeighbours(g, item) IN
        /\ last' = [op |-> "get_neighbours", out |-> r.out]
        /\ retset' = r.ret
    /\ UNCHANGED <<inputVars, g, it, searchVars>>

GetCommonMoviesCall(item1, item2) ==
    /\ mode = "api"
    /\ LET r == GetCommonMovies(g, item1, item2) IN
        /\ last' = [op |-> "get_common_movies", out |-> r.out]
        /\ retset' = r.ret
    /\ UNCHANGED <<inputVars, g, it, searchVars>>

\* the searches called with an item the graph lacks.  (With both items present
\* the searches run as SpecBfs and SpecFiltered follow them.)
ShortestPathBfsAbsentCall(starting_item, target_item) ==
    /\ mode = "api"
    /\ SpCheck(g, starting_item, target_item) # "ok"
    /\ last' = [op |-> "shortest_path_bfs", out |-> SpCheck(g, starting_item, target_item)]
    /\ retset' = {}
    /\ UNCHANGED <<inputVars, g, it, searchVars>>

ShortestPathBfsFilteredAbsentCall(starting_item, target_item) ==
    /\ mode = "api"
    /\ SpfCheck(g, starting_item, target_item) # "ok"
    /\ last' = [op |-> "shortest_path_bfs_filtered",
                out |-> SpfCheck(g, starting_item, target_item)]
    /\ retset' = {}
    /\ UNCHANGED <<inputVars, g, it, searchVars>>

ShortestDistanceBfsAbsentCall(starting_item) ==
    /\ mode = "api"
    /\ SdCheck(g, starting_item) # "ok"
    /\ last' = [op |-> "shortest_distance_bfs", out |-> SdCheck(g, starting_item)]
    /\ retset' = {}
    /\ UNCHANGED <<inputVars, g, it, searchVars>>

InitApi ==
    /\ mode = "api"
    /\ g = EmptyGraph
    /\ last = NoCall
    /\ retset = {}
    /\ movies = <<>>
    /\ q = NoArgs
    /\ rin = NoInput
    /\ it = NoIter
    /\ pc = "idle"
    /\ InitSearch

NextApi ==
    \/ \E i \in ApiItems, k \in Kinds : AddVertexCall(i, k)
    \/ \E i \in ApiItems, j \in ApiItems : AddEdgeCall(i, j)
    \/ \E i \in ApiItems, m \in ApiMovies : AddAppearancesCall(i, m)
    \/ \E i \in ApiItems, s \in ApiScoreDicts : AddSimScoreCall(i, s)
    \/ \E i \in ApiItems : GetNeighboursCall(i)
    \/ \E i \in ApiItems, j \in ApiItems : GetCommonMoviesCall(i, j)
    \/ \E i \in ApiItems, j \in ApiItems : ShortestPathBfsAbsentCall(i, j)
    \/ \E i \in ApiItems, j \in ApiItems : ShortestPathBfsFilteredAbsentCall(i, j)
    \/ \E i \in ApiItems : ShortestDistanceBfsAbsentCall(i)

NextActor ==
    \/ ActorNextMovie
    \/ ActorNextActor
    \/ ActorReturn

NextRec ==
    \/ RecStart
    \/ RecNextMovie
    \/ RecReturn

\* a client of the Graph API, from the empty graph
Spec == InitApi /\ [][NextApi]_vars

\* create_actor_graph on a movie dictionary
SpecActor == InitActor /\ [][NextActor]_vars

\* create_recommended_movie_graph on a main movie, a list and a score dictionary
SpecRec == InitRec /\ [][NextRec]_vars

\* every way the program makes a graph: the API's client and the two builders
InitGraph == InitApi \/ InitActor \/ InitRec
NextGraph == NextApi \/ NextActor \/ NextRec
SpecGraph == InitGraph /\ [][NextGraph]_vars

----------------------------------------------------------------------------
(* Properties *)

\* the vertices at most k edges away from s
RECURSIVE Within(_, _, _)
Within(G, s, k) ==
    IF k = 0 THEN {s}
    ELSE LET W == Within(G, s, k - 1) IN W \cup UNION {G[v].neighbours : v \in W}

\* the vertices some path connects s to
Reachable(G, s) == Within(G, s, Cardinality(DOMAIN G))

\* the least number of edges of a path from s to v, for v reachable from s
HopCount(G, s, v) ==
    CHOOSE k \in 0..Cardinality(DOMAIN G) :
        /\ v \in Within(G, s, k)
        /\ \A j \in 0..(k - 1) : v \notin Within(G, s, j)

\* the actors of the movie dictionary, and whether two share a movie
CastMembers == UNION {movies[m][1] : m \in DOMAIN movies}
SharesMovie(a, b) == \E m \in DOMAIN movies : a \in movies[m][1] /\ b \in movies[m][1]

\* C1: in the graph create_actor_graph returns, two distinct actors of the
\* casts are adjacent if and only if some movie's cast holds both, whatever
\* the order the movies and the cast members were iterated in.
C1_AdjacentIffShareMovie ==
    (mode = "actor" /\ pc = "returned") =>
        \A a \in CastMembers, b \in CastMembers :
            a # b => (Adjacent(g, a, b) <=> SharesMovie(a, b))

\* C1's case: a returned graph where two actors share no movie, are not
\* adjacent, and are connected through a third
C1_Witness ==
    /\ mode = "actor"
    /\ pc = "returned"
    /\ \E a \in CastMembers, b \in CastMembers, c \in CastMembers :
          /\ a # b
          /\ ~SharesMovie(a, b)
          /\ Adjacent(g, a, c)
          /\ Adjacent(g, c, b)

\* C2, as claimed: for start and target present and target reachable from
\* start, shortest_path_bfs's path has one vertex more than
\* shortest_distance_bfs(start)[target].
C2_PathLengthIsDistance ==
    (sp.out = "ok" /\ sd.out = "ok" /\ q.target \in Reachable(g, q.start)) =>
        /\ q.target \in DOMAIN sd.ret
        /\ Len(sp.ret) - 1 = sd.ret[q.target]

\* C2, amended: the same for a target other than start (the mapping
\* shortest_distance_bfs returns has no entry for start).
C2_PathLengthIsDistanceOfOther ==
    (sp.out = "ok" /\ sd.out = "ok" /\ q.target \in Reachable(g, q.start)
        /\ q.target # q.start) =>
        /\ q.target \in DOMAIN sd.ret
        /\ Len(sp.ret) - 1 = sd.ret[q.target]

\* C2's case: both searches done, the target two edges from start
C2_Witness ==
    /\ sp.out = "ok"
    /\ sd.out = "ok"
    /\ q.target # q.start
    /\ Len(sp.ret) = 3
    /\ sd.ret[q.target] = 2

\* C3: with start and target present, shortest_path_bfs raises nothing, returns
\* the empty sequence exactly when no path connects start to target, and
\* otherwise a sequence that begins with start and ends with target.
C3_EmptyIffNoPath ==
    (mode = "bfs" /\ sp.out # "none" /\ q.start \in DOMAIN g /\ q.target \in DOMAIN g) =>
        /\ sp.out \in {"running", "ok"}
        /\ sp.out = "ok" =>
            /\ (sp.ret = <<>>) <=> (q.target \notin Reachable(g, q.start))
            /\ sp.ret # <<>> =>
                (sp.ret[1] = q.start /\ sp.ret[Len(sp.ret)] = q.target)

\* C3's case: the search went through start's neighbours and found no path
C3_Witness ==
    /\ mode = "bfs"
    /\ sp.out = "ok"
    /\ sp.ret = <<>>
    /\ q.start \in DOMAIN g
    /\ q.target \in DOMAIN g
    /\ g[q.start].neighbours # {}

\* C4: the neighbour relation is symmetric in every graph the API's client and
\* the builders can make, and so is adjacent.
C4_Symmetric ==
    /\ \A v \in DOMAIN g : \A u \in g[v].neighbours :
          u \in DOMAIN g /\ v \in g[u].neighbours
    /\ \A u \in DOMAIN g \cup ApiItems, v \in DOMAIN g \cup ApiItems :
          Adjacent(g, u, v) = Adjacent(g, v, u)

\* C4's case: add_edge has just joined two vertices
C4_Witness ==
    /\ mode = "api"
    /\ last = [op |-> "add_edge", out |-> "ok"]
    /\ \E u \in DOMAIN g, v \in DOMAIN g : u # v /\ Adjacent(g, u, v)

\* C5: no vertex is in its own neighbour set, in any graph the API's client
\* (keeping add_edge's precondition) can make and in any graph a builder
\* returns.
C5_NoSelfLoops ==
    (mode = "api" \/ pc = "returned") =>
        \A v \in DOMAIN g : v \notin g[v].neighbours

\* C6: shortest_distance_bfs(start) returns a mapping over every vertex but
\* start: the least number of edges from start for a vertex reachable from it,
\* and the infinite distance for every other.
C6_Distances ==
    (mode = "bfs" /\ sd.out = "ok") =>
        /\ DOMAIN sd.ret = DOMAIN g \ {q.start}
        /\ \A v \in DOMAIN sd.ret :
              sd.ret[v] = IF v \in Reachable(g, q.start)
                          THEN HopCount(g, q.start, v) ELSE Inf

\* C6's case: a vertex of the other kind two edges away, and one out of reach
C6_Witness ==
    /\ mode = "bfs"
    /\ sd.out = "ok"
    /\ \E v \in DOMAIN sd.ret : sd.ret[v] = Inf
    /\ \E v \in DOMAIN sd.ret : sd.ret[v] = 2
    /\ \E v \in DOMAIN sd.ret : sd.ret[v] = 1 /\ g[v].kind # g[q.start].kind

\* C7: with a valid key, a non-empty path of shortest_path_bfs_filtered means
\* shortest_path_bfs returns a non-empty path too, and one no longer.
C7_FilteredNotShorter ==
    (spf.out = "ok" /\ sp.out = "ok" /\ q.key \in ValidKeys /\ spf.ret # <<>>) =>
        /\ sp.ret # <<>>
        /\ Len(spf.ret) >= Len(sp.ret)

\* C7's case: the filter made the path longer
C7_Witness ==
    /\ spf.out = "ok"
    /\ sp.out = "ok"
    /\ q.key \in ValidKeys
    /\ sp.ret # <<>>
    /\ Len(spf.ret) > Len(sp.ret)

\* whether shortest_path_bfs_filtered has returned or raised
SpfDone == spf.out \notin {"none", "running"}

\* C8, as claimed: with start and target present and a key that is not
\* 'release date' or 'rating', shortest_path_bfs_filtered raises KeyError.
C8_InvalidKeyRaises ==
    (SpfDone /\ q.start \in DOMAIN g /\ q.target \in DOMAIN g
        /\ q.key \notin ValidKeys) =>
        spf.out = "KeyError"

\* C8, amended: it raises KeyError when start is not target and start has a
\* neighbour other than itself; it returns <<start>> when start is target, and
\* the empty sequence when start has no such neighbour.
C8_InvalidKeyRaisesOnFirstEdge ==
    (SpfDone /\ q.start \in DOMAIN g /\ q.target \in DOMAIN g
        /\ q.key \notin ValidKeys) =>
        IF q.start # q.target /\ g[q.start].neighbours \ {q.start} # {}
        THEN spf.out = "KeyError"
        ELSE /\ spf.out = "ok"
             /\ spf.ret = IF q.start = q.target THEN <<q.start>> ELSE <<>>

\* C8's case: the search of a graph with an edge at start raised KeyError
C8_Witness ==
    /\ spf.out = "KeyError"
    /\ q.key \notin ValidKeys
    /\ q.start # q.target
    /\ g[q.start].neighbours # {}

\* a call that raised ValueError and left the graph as it was
RaisedValueError == last'.out = "ValueError" /\ g' = g

\* C9: add_edge, get_neighbours, get_common_movies, add_appearances and the
\* three searches, called with an item the graph lacks (either of two), raise
\* ValueError and leave the graph as it was.
C9_AbsentRaises ==
    [][/\ \A i \in ApiItems, j \in ApiItems :
            (i \notin DOMAIN g \/ j \notin DOMAIN g) =>
                /\ AddEdgeCall(i, j) => RaisedValueError
                /\ GetCommonMoviesCall(i, j) => RaisedValueError
                /\ ShortestPathBfsAbsentCall(i, j) => RaisedValueError
                /\ ShortestPathBfsFilteredAbsentCall(i, j) => RaisedValueError
       /\ \A i \in ApiItems :
            i \notin DOMAIN g =>
                /\ GetNeighboursCall(i) => RaisedValueError
                /\ ShortestDistanceBfsAbsentCall(i) => RaisedValueError
                /\ \A m \in ApiMovies : AddAppearancesCall(i, m) => RaisedValueError
      ]_vars

\* C9's case: add_edge raised on a graph that has one of its two items (the
\* client passes two different items, and only one item is missing) and has
\* an appearance recorded
C9_Witness ==
    /\ mode = "api"
    /\ last = [op |-> "add_edge", out |-> "ValueError"]
    /\ Cardinality(DOMAIN g) = NumApiItems - 1
    /\ \E v \in DOMAIN g : g[v].appearances # {}

\* C10: add_vertex of an item already present changes nothing, whatever the
\* kind; of an item not present, it adds that one vertex, with empty neighbour
\* and appearance sets, and changes no other vertex.
C10_AddVertexIdempotent ==
    [][\A i \in ApiItems, k \in Kinds :
          AddVertexCall(i, k) =>
              IF i \in DOMAIN g
              THEN g' = g
              ELSE /\ DOMAIN g' = DOMAIN g \cup {i}
                   /\ g'[i].neighbours = {}
                   /\ g'[i].appearances = {}
                   /\ \A v \in DOMAIN g : g'[v] = g[v]
      ]_vars

\* C10's case: add_vertex was the last call, and every vertex has a neighbour,
\* an appearance and a similarity score, so the item was present before it
C10_Witness ==
    /\ mode = "api"
    /\ last.op = "add_vertex"
    /\ Cardinality(DOMAIN g) = NumApiItems
    /\ \A v \in DOMAIN g :
          g[v].neighbours # {} /\ g[v].appearances # {} /\ g[v].sim_score # 0

\* the candidates of create_recommended_movie_graph's call
Candidates == {rin.recommendations[i] : i \in 1..Len(rin.recommendations)}

\* C11: the graph create_recommended_movie_graph returns, for scores that
\* cover the candidates, is a star: every candidate is adjacent to the main
\* movie, and no two candidates other than the main movie are adjacent.
C11_Star ==
    (mode = "rec" /\ pc = "returned" /\ Candidates \subseteq DOMAIN rin.sim_scores) =>
        /\ \A c \in Candidates : Adjacent(g, c, rin.main_movie)
        /\ \A a \in Candidates \ {rin.main_movie} :
           \A b \in Candidates \ {rin.main_movie} : ~Adjacent(g, a, b)

\* C11's case: a graph returned for two candidates other than the main movie
C11_Witness ==
    /\ mode = "rec"
    /\ pc = "returned"
    /\ Cardinality(Candidates \ {rin.main_movie}) >= 2
    /\ \A c \in Candidates : Adjacent(g, c, rin.main_movie)

\* the attribute of movie m that key selects: its year or its rating
Attribute(m, key) == IF key = "release date" THEN movies[m][2][1] ELSE movies[m][2][3]

\* an admissible edge: u and v are neighbours, and a movie of both appearance
\* sets has the selected attribute within [lower, upper]
Admissible(u, v) ==
    /\ v \in g[u].neighbours
    /\ \E m \in g[u].appearances \cap g[v].appearances :
          q.lower <= Attribute(m, q.key) /\ Attribute(m, q.key) <= q.upper

\* the vertices at most k admissible edges away from s
RECURSIVE AdmWithin(_, _)
AdmWithin(s, k) ==
    IF k = 0 THEN {s}
    ELSE LET W == AdmWithin(s, k - 1) IN
         W \cup {v \in DOMAIN g : \E u \in W : Admissible(u, v)}

\* the least number of admissible edges from s to v, for v so reachable
AdmHopCount(s, v) ==
    CHOOSE k \in 0..Cardinality(DOMAIN g) :
        /\ v \in AdmWithin(s, k)
        /\ \A j \in 0..(k - 1) : v \notin AdmWithin(s, j)

\* C12: with start and target present and a valid key,
\* shortest_path_bfs_filtered returns the empty sequence iff no path of
\* admissible edges connects start to target, and otherwise a path from start
\* to target whose consecutive pairs are admissible edges and whose edge count
\* is the least of all such paths.  (FilterMovies, the movie dictionary of
\* these searches, holds a record for every movie of the appearance sets.)
C12_ShortestAdmissiblePath ==
    (SpfDone /\ q.start \in DOMAIN g /\ q.target \in DOMAIN g
        /\ q.key \in ValidKeys) =>
        /\ spf.out = "ok"
        /\ spf.ret = <<>> <=>
              q.target \notin AdmWithin(q.start, Cardinality(DOMAIN g))
        /\ spf.ret # <<>> =>
              /\ spf.ret[1] = q.start
              /\ spf.ret[Len(spf.ret)] = q.target
              /\ \A i \in 1..(Len(spf.ret) - 1) : Admissible(spf.ret[i], spf.ret[i + 1])
              /\ Len(spf.ret) - 1 = AdmHopCount(q.start, q.target)

\* C12's case: target is a neighbour of start over an edge that is not
\* admissible, and the path returned reaches it over two admissible edges
C12_Witness ==
    /\ spf.out = "ok"
    /\ q.key \in ValidKeys
    /\ q.target \in g[q.start].neighbours
    /\ ~Admissible(q.start, q.target)
    /\ Len(spf.ret) = 3

====
